---- MODULE Spec2Model ----
(***************************************************************************)
(* The voxday.net archive scraper (voxday_scraper.py) as a state machine:  *)
(* the files under ./voxday_archive, the remote site, and the position of  *)
(* one run of main() at a time.  Strings that the code inspects (URLs,     *)
(* sitemap locations, dates, paths) are sequences of one-character         *)
(* strings, so that the regular expressions, the sanitisation and the      *)
(* sorting are computed the way the code computes them.                    *)
(***************************************************************************)
EXTENDS Integers, Sequences, FiniteSets, TLC

(***************************************************************************)
(* Bounds of the model.                                                    *)
(***************************************************************************)
\* Runs of main() in one behaviour of Spec (each starts from the files the
\* earlier runs left).
MaxRuns == 2
\* Posts listed by the largest site of SpecLong (sites of 0..MaxLong posts).
MaxLong == 11

(***************************************************************************)
(* Program constants.                                                      *)
(***************************************************************************)
\* "if i % 10 == 0": the checkpoint is saved every 10 processed posts.
FlushEvery == 10
\* "[:100]": the slug of a file name is cut to 100 characters.
SlugMax == 100

\* None where the code holds a string or None: no string of characters.
None == <<"None">>

\* None where the code holds a dict or None (scrape_post's result).
NonePost == [none |-> TRUE]

\* A file that does not exist.
NoFile == [exists |-> FALSE]

(***************************************************************************)
(* Characters and strings.                                                 *)
(***************************************************************************)
\* The characters the model's strings use, in code point order.
Alphabet ==
    << "#", "-", ".", "/", "0", "1", "2", "3", "4", "5", "6", "7", "8", "9",
       ":", "?", "_", "a", "b", "c", "d", "e", "f", "g", "h", "i", "j", "k",
       "l", "m", "n", "o", "p", "q", "r", "s", "t", "u", "v", "w", "x", "y",
       "z" >>

Ord(c) == CHOOSE k \in 1..Len(Alphabet) : Alphabet[k] = c

Digits == {"0", "1", "2", "3", "4", "5", "6", "7", "8", "9"}

Letters ==
    {"a", "b", "c", "d", "e", "f", "g", "h", "i", "j", "k", "l", "m", "n",
     "o", "p", "q", "r", "s", "t", "u", "v", "w", "x", "y", "z"}

\* \d of the regular expressions.
IsDigit(c) == c \in Digits

\* [\w\-] : the characters re.sub(r'[^\w\-]', '_', slug) keeps.
IsSlugChar(c) == c \in Digits \cup Letters \cup {"_", "-"}

\* s[a:b] of Python for 1-based a and inclusive b.
Slice(s, a, b) == [k \in 1..(IF b >= a THEN b - a + 1 ELSE 0) |-> s[a + k - 1]]

\* s[:n]
Truncate(s, n) == IF Len(s) <= n THEN s ELSE Slice(s, 1, n)

\* sub in s
Contains(s, sub) ==
    \E i \in 1..(Len(s) - Len(sub) + 1) :
        \A k \in 1..Len(sub) : s[i + k - 1] = sub[k]

\* s < t, the order of Python's str
StrLess(s, t) ==
    \E i \in 1..(Len(t)) :
        /\ \A k \in 1..(i - 1) : k <= Len(s) /\ s[k] = t[k]
        /\ i - 1 <= Len(s)
        /\ \/ i = Len(s) + 1
           \/ i <= Len(s) /\ Ord(s[i]) < Ord(t[i])

\* The first position >= i of s holding a character of cs, Len(s)+1 if none.
FirstOf(s, cs, i) ==
    IF \E k \in i..Len(s) : s[k] \in cs
      THEN CHOOSE k \in i..Len(s) :
               s[k] \in cs /\ \A j \in i..(k - 1) : s[j] \notin cs
      ELSE Len(s) + 1

\* s.strip('/')
Strip(s) ==
    IF \A k \in 1..Len(s) : s[k] = "/"
      THEN << >>
      ELSE LET a == CHOOSE k \in 1..Len(s) :
                        s[k] # "/" /\ \A j \in 1..(k - 1) : s[j] = "/"
               b == CHOOSE k \in 1..Len(s) :
                        s[k] # "/" /\ \A j \in (k + 1)..Len(s) : s[j] = "/"
           IN Slice(s, a, b)

\* s.replace('/', '_')
Replace(s) == [k \in 1..Len(s) |-> IF s[k] = "/" THEN "_" ELSE s[k]]

\* urlparse(url).path for scheme://netloc/path?query#fragment
UrlPath(url) ==
    LET c  == FirstOf(url, {":"}, 1)
        hasNetloc == c + 2 <= Len(url) /\ url[c + 1] = "/" /\ url[c + 2] = "/"
        p0 == IF hasNetloc THEN FirstOf(url, {"/", "?", "#"}, c + 3) ELSE 1
        p1 == FirstOf(url, {"?", "#"}, p0)
    IN Slice(url, p0, p1 - 1)

(***************************************************************************)
(* extract_date_from_url and get_output_path.                              *)
(***************************************************************************)
\* r'/(\d{4})/(\d{2})/(\d{2})/' matches url at position i.
DateMatchAt(url, i) ==
    /\ i + 11 <= Len(url)
    /\ url[i] = "/" /\ url[i + 5] = "/" /\ url[i + 8] = "/" /\ url[i + 11] = "/"
    /\ \A k \in {1, 2, 3, 4, 6, 7, 9, 10} : IsDigit(url[i + k])

\* The element of a one-element set.  { e(x) : x \in {v} } gives e the value
\* v itself, computed once.
The(S) == CHOOSE x \in S : TRUE

Min(S) == CHOOSE x \in S : \A y \in S : x <= y

\* extract_date_from_url: "YYYY-MM-DD" of the leftmost match, else None.
extract_date_from_url(url) ==
    LET ms == {i \in 1..Len(url) : DateMatchAt(url, i)}
    IN IF ms = {}
         THEN None
         ELSE The({Slice(url, i + 1, i + 4) \o <<"-">> \o Slice(url, i + 6, i + 7)
                     \o <<"-">> \o Slice(url, i + 9, i + 10) : i \in {Min(ms)}})

\* r'/(\d{4})/(\d{2})/\d{2}/([^/]+)/?' matches url at position i.
PathMatchAt(url, i) ==
    DateMatchAt(url, i) /\ i + 12 <= Len(url) /\ url[i + 12] # "/"

\* CleanSlug with r'[^\w]': the hyphen is replaced too.
CleanSlugNoHyphen(slug) ==
    Truncate([k \in 1..Len(slug) |->
                 IF IsSlugChar(slug[k]) /\ slug[k] # "-" THEN slug[k] ELSE "_"],
             SlugMax)

\* re.sub(r'[^\w\-]', '_', slug)[:100]
CleanSlug(slug) ==
    Truncate([k \in 1..Len(slug) |->
                 IF IsSlugChar(slug[k]) THEN slug[k] ELSE "_"], SlugMax)

Json == <<".", "j", "s", "o", "n">>

Misc == <<"m", "i", "s", "c">>

\* get_output_path: the path below OUTPUT_DIR, as the sequence of its
\* components (directories, then the file name).  re.search takes the
\* leftmost match, and [^/]+ runs to the next "/" or to the end.
get_output_path(url) ==
    LET ms == {i \in 1..Len(url) : PathMatchAt(url, i)}
    IN IF ms = {}
         THEN The({<< Misc, Truncate(Replace(Strip(p)), SlugMax) \o Json >> :
                      p \in {UrlPath(url)}})
         ELSE The({<< Slice(url, i + 1, i + 4),
                      Slice(url, i + 6, i + 7),
                      CleanSlug(Slice(url, i + 12, FirstOf(url, {"/"}, i + 12) - 1))
                        \o Json >> : i \in {Min(ms)}})

(***************************************************************************)
(* sorted(): the two sorts of the program.                                 *)
(***************************************************************************)
\* sorted(sitemap_urls): the element at position k goes to the place after
\* the elements below it and the equal elements before it (a stable sort).
SortedStrings(xs) ==
    LET n == Len(xs)
        place(k) ==
            1 + Cardinality({j \in 1..n : StrLess(xs[j], xs[k])})
              + Cardinality({j \in 1..(k - 1) : xs[j] = xs[k]})
    IN [r \in 1..n |-> xs[CHOOSE k \in 1..n : place(k) = r]]

\* key=lambda x: x.get("date") or ""
DateKey(post) == IF post.date = None THEN << >> ELSE post.date

\* SortedByDateDesc as sorted(post_urls, key=...)[::-1]: the elements of
\* equal key come out in the reverse of their order.
SortedAscReversed(ps) ==
    LET n == Len(ps)
        place(k) ==
            1 + Cardinality({j \in 1..n : StrLess(DateKey(ps[k]), DateKey(ps[j]))})
              + Cardinality({j \in (k + 1)..n : DateKey(ps[j]) = DateKey(ps[k])})
    IN [r \in 1..n |-> ps[CHOOSE k \in 1..n : place(k) = r]]

\* sorted(post_urls, key=..., reverse=True): the element at position k goes
\* to the place after the elements of greater key and the elements of equal
\* key before it (reverse=True keeps the order of equal elements).
SortedByDateDesc(ps) ==
    LET n == Len(ps)
        place(k) ==
            1 + Cardinality({j \in 1..n : StrLess(DateKey(ps[k]), DateKey(ps[j]))})
              + Cardinality({j \in 1..(k - 1) : DateKey(ps[j]) = DateKey(ps[k])})
    IN [r \in 1..n |-> ps[CHOOSE k \in 1..n : place(k) = r]]

(***************************************************************************)
(* The remote site: what the sitemap index and the post-sitemaps list.     *)
(***************************************************************************)
Host == <<"h", "t", "t", "p", ":", "/", "/", "v", ".", "n", "e", "t">>

\* "post-sitemap" of fetch_sitemap_index
PostSitemapWord == <<"p", "o", "s", "t", "-", "s", "i", "t", "e", "m", "a", "p">>

Xml == <<".", "x", "m", "l">>

\* The URL fetch_sitemap_index fetches.
SITEMAP_INDEX_URL ==
    Host \o <<"/", "s", "i", "t", "e", "m", "a", "p", "_", "i", "n", "d", "e", "x">> \o Xml

SmPost1 == Host \o <<"/">> \o PostSitemapWord \o Xml

SmPost2 == Host \o <<"/">> \o PostSitemapWord \o <<"2">> \o Xml

SmPage == Host \o <<"/", "p", "a", "g", "e", "-", "s", "i", "t", "e", "m", "a", "p">> \o Xml

\* http://v.net/2024/03/07/a-b/
UrlAB7 == Host \o <<"/", "2", "0", "2", "4", "/", "0", "3", "/", "0", "7", "/", "a", "-", "b", "/">>

\* http://v.net/2024/03/08/a-b/ : the same month and slug, another day
UrlAB8 == Host \o <<"/", "2", "0", "2", "4", "/", "0", "3", "/", "0", "8", "/", "a", "-", "b", "/">>

\* http://v.net/2023/06/01/a.b/
UrlDot == Host \o <<"/", "2", "0", "2", "3", "/", "0", "6", "/", "0", "1", "/", "a", ".", "b", "/">>

\* http://v.net/2023/06/01/a_b/
UrlUnd == Host \o <<"/", "2", "0", "2", "3", "/", "0", "6", "/", "0", "1", "/", "a", "_", "b", "/">>

\* http://v.net/about/
UrlAbout == Host \o <<"/", "a", "b", "o", "u", "t", "/">>

\* https://example.org/2024/03/07/hello-world/
UrlHello ==
    <<"h", "t", "t", "p", "s", ":", "/", "/", "e", "x", "a", "m", "p", "l", "e",
      ".", "o", "r", "g", "/", "2", "0", "2", "4", "/", "0", "3", "/", "0", "7",
      "/", "h", "e", "l", "l", "o", "-", "w", "o", "r", "l", "d", "/">>

\* http://v.net/about/?/2024/03/07/x : no date in the path, one in the query
UrlQuery ==
    UrlAbout \o <<"?", "/", "2", "0", "2", "4", "/", "0", "3", "/", "0", "7", "/", "x">>

\* http://v.net/2024/03/07/ : a date and no slug
UrlNoSlug == Host \o <<"/", "2", "0", "2", "4", "/", "0", "3", "/", "0", "7", "/">>

DigitSeq == <<"0", "1", "2", "3", "4", "5", "6", "7", "8", "9">>

\* http://v.net/2024/01/DD/pDD/ : the k-th post of a long site, k < 100
LongUrl(k) ==
    LET dd == <<DigitSeq[(k \div 10) + 1], DigitSeq[(k % 10) + 1]>>
    IN Host \o <<"/", "2", "0", "2", "4", "/", "0", "1", "/">> \o dd
         \o <<"/", "p">> \o dd \o <<"/">>

\* A <lastmod> text: 2024-03-09
Lastmod1 == <<"2", "0", "2", "4", "-", "0", "3", "-", "0", "9">>

Entry(loc, lastmod) == [loc |-> loc, lastmod |-> lastmod]

\* A site: its name and, for a "long" site, the number of its posts.
SiteOf(name, posts) == [name |-> name, posts |-> posts]

\* The sites of Spec: "A" lists its sitemaps out of order, a page sitemap
\* among them, one post in both post-sitemaps and two posts of one month
\* with the same slug; "B" lists two posts whose slugs differ in one
\* character; "E" lists one post and also answers with a status of success
\* and an empty body.
SmallSites == {SiteOf("A", 3), SiteOf("B", 2), SiteOf("E", 1)}

\* The sites of SpecLong: n posts in one post-sitemap, n in 0..MaxLong.
LongSites == {SiteOf("long", n) : n \in 0..MaxLong}

\* The site of SpecPaths: dated and undated URLs, one of them listed twice.
PathSites == {SiteOf("paths", 5)}

\* The <loc> of the <sitemap> entries of the sitemap index, in document order.
SitemapIndex(s) ==
    CASE s.name = "A" -> <<SmPost2, SmPage, SmPost1>>
      [] s.name = "B" -> <<SmPost1>>
      [] s.name = "E" -> <<SmPost1>>
      [] OTHER        -> <<SmPage, SmPost1>>

\* The <url> entries of a sitemap, in document order.
SitemapEntries(s, sitemap_url) ==
    CASE s.name = "A" /\ sitemap_url = SmPost1 ->
             <<Entry(UrlAB7, Lastmod1), Entry(UrlAbout, None)>>
      [] s.name = "A" /\ sitemap_url = SmPost2 ->
             <<Entry(UrlAB8, None), Entry(UrlAB7, Lastmod1)>>
      [] s.name = "B" /\ sitemap_url = SmPost1 ->
             <<Entry(UrlDot, None), Entry(UrlUnd, None)>>
      [] s.name = "E" /\ sitemap_url = SmPost1 ->
             <<Entry(UrlDot, None)>>
      [] s.name = "paths" /\ sitemap_url = SmPost1 ->
             <<Entry(UrlHello, None), Entry(UrlQuery, None),
               Entry(UrlNoSlug, None), Entry(UrlAbout, None),
               Entry(UrlHello, Lastmod1)>>
      [] s.name = "long" /\ sitemap_url = SmPost1 ->
             [k \in 1..s.posts |-> Entry(LongUrl(k), None)]
      [] OTHER -> << >>

(***************************************************************************)
(* State.                                                                  *)
(***************************************************************************)
VARIABLES
    site,          \* the remote site (fixed during a behaviour)
    progress_file, \* PROGRESS_FILE: NoFile or the saved dict
    index_file,    \* INDEX_FILE: NoFile or the saved index
    files,         \* the record files: a set of [path, data]
    dirs,          \* the directories below and including OUTPUT_DIR
    corpus,        \* extract_content.py: OUTPUT_FILE, NoFile or its blocks
    pc,            \* where the run of main() is
    run,           \* the number of this run (the clock of last_run)
    progress,      \* main's progress dict
    sitemap_urls,  \* fetch_all_post_urls: the sorted post-sitemap URLs
    sm,            \* fetch_all_post_urls: the loop's i
    post_urls,     \* all_posts of fetch_all_post_urls, post_urls of main
    scraped,       \* scrape_all_posts: scraped
    failed,        \* scrape_all_posts: failed
    to_scrape,     \* scrape_all_posts: to_scrape
    i,             \* scrape_all_posts: the loop's i
    post_data,     \* scrape_all_posts: post_data of this iteration
    requests,      \* history: the fetches and sleeps of this run, in order
    flushes,       \* history: the calls of save_progress in this run
    written,       \* history: the URLs whose record this run wrote
    start_disk,    \* history: the files as this run found them
    prev_scraped,  \* history: every URL a checkpoint held when a run ended
    ever_failed    \* history: the URLs whose fetch failed in an earlier run

disk == <<progress_file, index_file, files, dirs>>

locals ==
    <<progress, sitemap_urls, sm, post_urls, scraped, failed, to_scrape, i,
      post_data>>

history ==
    <<requests, flushes, written, start_disk, prev_scraped, ever_failed>>

vars == <<site, disk, corpus, pc, run, locals, history>>

\* The positions inside the try block of main: scrape_all_posts is running.
ScrapingPcs ==
    {"scrape_all_posts", "scrape_post", "handle", "add", "update_progress",
     "sleep"}

\* The positions of main before the try block.
EarlyPcs ==
    {"main", "fetch_sitemap_index", "fetch_sitemap", "sitemap_sleep",
     "build_index"}

\* The positions at which the process has ended.
EndPcs == {"done", "interrupted", "runtime_error", "killed"}

\* scraped_urls of the checkpoint on disk.
PersistedScraped ==
    IF progress_file = NoFile THEN {} ELSE progress_file.scraped_urls

\* failed_urls of the checkpoint on disk.
PersistedFailed ==
    IF progress_file = NoFile THEN {} ELSE progress_file.failed_urls

Snapshot ==
    [progress_file |-> progress_file, index_file |-> index_file, files |-> files]

\* What requests.get gives fetch_url: an error (no answer, a timeout, a
\* status that raise_for_status refuses), or a status of success with an
\* empty body, or a status of success with a body.
Responses(s) ==
    IF s.name = "E" THEN {"error", "empty", "page"} ELSE {"error", "page"}

\* fetch_url's result passes "if not content": it is neither None nor "".
HasContent(r) == r = "page"

\* A call of fetch_url: ok when the request succeeded, empty when the body
\* it returned is "".
Fetch(kind, url, r) ==
    [op |-> "fetch", kind |-> kind, url |-> url, ok |-> r # "error",
     empty |-> r = "empty"]

Sleep == [op |-> "sleep"]

InitLocals ==
    /\ progress = [scraped_urls |-> {}, failed_urls |-> {}, last_run |-> 0]
    /\ sitemap_urls = << >>
    /\ sm = 1
    /\ post_urls = << >>
    /\ scraped = {}
    /\ failed = {}
    /\ to_scrape = << >>
    /\ i = 1
    /\ post_data = NonePost

\* A fresh installation: nothing on disk, the first run about to start.
InitWith(sites) ==
    /\ site \in sites
    /\ progress_file = NoFile
    /\ index_file = NoFile
    /\ files = {}
    /\ dirs = {}
    /\ corpus = NoFile
    /\ pc = "main"
    /\ run = 1
    /\ InitLocals
    /\ requests = << >>
    /\ flushes = 0
    /\ written = {}
    /\ start_disk = [progress_file |-> NoFile, index_file |-> NoFile, files |-> {}]
    /\ prev_scraped = {}
    /\ ever_failed = {}

Init == InitWith(SmallSites)

InitLong == InitWith(LongSites)

InitPaths == InitWith(PathSites)

\* The record scrape_all_posts writes for a post (run: when it was scraped).
RecordOf(url, lastmod, at) ==
    [url |-> url, date_from_url |-> extract_date_from_url(url),
     scraped_at |-> at, sitemap_lastmod |-> lastmod]

\* The archive a first run left that found one post, LongUrl(1), and scraped
\* it; the second run is about to start, on a site that lists more by now.
InitResume ==
    /\ site \in {SiteOf("long", n) : n \in 1..MaxLong}
    /\ progress_file =
           [scraped_urls |-> {LongUrl(1)}, failed_urls |-> {}, last_run |-> 1]
    /\ index_file =
           [generated_at |-> 1, total_posts |-> 1, source |-> SITEMAP_INDEX_URL,
            posts |-> <<[url |-> LongUrl(1), lastmod |-> None,
                         date |-> extract_date_from_url(LongUrl(1))]>>]
    /\ files = {[path |-> get_output_path(LongUrl(1)),
                 data |-> RecordOf(LongUrl(1), None, 1)]}
    /\ dirs = {SubSeq(get_output_path(LongUrl(1)), 1, k) : k \in 0..2}
    /\ corpus = NoFile
    /\ pc = "main"
    /\ run = 2
    /\ InitLocals
    /\ requests = << >>
    /\ flushes = 0
    /\ written = {}
    /\ start_disk = Snapshot
    /\ prev_scraped = {LongUrl(1)}
    /\ ever_failed = {}

(***************************************************************************)
(* The pieces of the code the actions use.                                 *)
(***************************************************************************)
\* load_progress: the saved dict, or the empty one when there is no file.
load_progress ==
    IF progress_file = NoFile
      THEN [scraped_urls |-> {}, failed_urls |-> {}, last_run |-> 0]
      ELSE progress_file

\* fetch_sitemap_index after the fetch: the <loc> texts that contain
\* "post-sitemap", sorted.
PostSitemaps(locs) ==
    SortedStrings(SelectSeq(locs, LAMBDA loc : Contains(loc, PostSitemapWord)))

\* fetch_post_urls_from_sitemap: the post_data of one <url> entry.
PostRef(entry) ==
    [url |-> entry.loc, lastmod |-> entry.lastmod,
     date |-> extract_date_from_url(entry.loc)]

\* fetch_post_urls_from_sitemap: [] when the fetch fails, else one dict per
\* <url> entry, in document order.
fetch_post_urls_from_sitemap(sitemap_url, r) ==
    IF HasContent(r)
      THEN LET es == SitemapEntries(site, sitemap_url)
           IN [k \in 1..Len(es) |-> PostRef(es[k])]
      ELSE << >>

\* scrape_post: None when fetch_url gives None or "", else the extracted
\* dict (of the fields taken from the page only the URL's are modelled).
scrape_post(url, r) ==
    IF HasContent(r)
      THEN [url |-> url, date_from_url |-> extract_date_from_url(url),
            scraped_at |-> run]
      ELSE NonePost

\* ToScrape without the filter: every discovered post is scraped again.
ToScrapeAll(posts, done) == posts

\* to_scrape = [p for p in post_urls if p["url"] not in scraped]
ToScrape(posts, done) == SelectSeq(posts, LAMBDA p : p.url \notin done)

\* FlushDue one post late: the checkpoint is saved every 11 posts.
FlushDueLate(n) == n % (FlushEvery + 1) = 0

\* if i % 10 == 0
FlushDue(n) == n % FlushEvery = 0

\* SaveProgress that saves the URLs scraped in this run only.
SaveProgressOfRun ==
    LET p == [scraped_urls |-> written, failed_urls |-> failed, last_run |-> run]
    IN /\ progress' = p
       /\ progress_file' = p
       /\ flushes' = flushes + 1

\* progress["scraped_urls"] = list(scraped); progress["failed_urls"] =
\* list(failed); save_progress(progress).  The lists are kept as sets: their
\* order is that of a Python set and nothing reads it.
SaveProgress ==
    LET p == [scraped_urls |-> scraped, failed_urls |-> failed, last_run |-> run]
    IN /\ progress' = p
       /\ progress_file' = p
       /\ flushes' = flushes + 1

\* The directories mkdir(parents=True) makes for the file at path.
Parents(path) == {SubSeq(path, 1, k) : k \in 0..(Len(path) - 1)}

(***************************************************************************)
(* main, one action per step.                                              *)
(***************************************************************************)
\* setup_directories(); progress = load_progress()
Main ==
    /\ pc = "main"
    /\ dirs' = dirs \cup {<< >>}
    /\ progress' = load_progress
    /\ pc' = "fetch_sitemap_index"
    /\ UNCHANGED <<site, corpus, progress_file, index_file, files, run, sitemap_urls,
                   sm, post_urls, scraped, failed, to_scrape, i, post_data,
                   history>>

\* FetchSitemapIndex returning [] where the code raises RuntimeError.
FetchSitemapIndexReturnsEmpty ==
    /\ pc = "fetch_sitemap_index"
    /\ \E r \in Responses(site) \cup {"other"} :
          /\ requests' = Append(requests, Fetch("index", SITEMAP_INDEX_URL, r))
          /\ sitemap_urls' =
                 PostSitemaps(IF r = "page" THEN SitemapIndex(site) ELSE << >>)
          /\ sm' = 1
          /\ post_urls' = << >>
          /\ pc' = "fetch_sitemap"
    /\ UNCHANGED <<site, corpus, disk, run, progress, scraped, failed, to_scrape, i,
                   post_data, flushes, written, start_disk, prev_scraped,
                   ever_failed>>

\* fetch_sitemap_index: the fetch fails or the body is empty (RuntimeError),
\* or it gives the site's index ("page"), or it gives a body with no
\* <sitemap> entry in it ("other").
FetchSitemapIndex ==
    /\ pc = "fetch_sitemap_index"
    /\ \E r \in Responses(site) \cup {"other"} :
          /\ requests' = Append(requests, Fetch("index", SITEMAP_INDEX_URL, r))
          /\ IF r \in {"error", "empty"}
               THEN /\ pc' = "runtime_error"
                    /\ UNCHANGED <<sitemap_urls, sm, post_urls>>
               ELSE /\ sitemap_urls' =
                           PostSitemaps(IF r = "page"
                                          THEN SitemapIndex(site) ELSE << >>)
                    /\ sm' = 1
                    /\ post_urls' = << >>
                    /\ pc' = "fetch_sitemap"
    /\ UNCHANGED <<site, corpus, disk, run, progress, scraped, failed, to_scrape, i,
                   post_data, flushes, written, start_disk, prev_scraped,
                   ever_failed>>

\* FetchSitemap that gives up the other sitemaps when a fetch gives nothing.
FetchSitemapStops ==
    /\ pc = "fetch_sitemap"
    /\ sm <= Len(sitemap_urls)
    /\ \E r \in Responses(site) :
          /\ requests' = Append(requests, Fetch("sitemap", sitemap_urls[sm], r))
          /\ post_urls' = post_urls \o fetch_post_urls_from_sitemap(sitemap_urls[sm], r)
          /\ sm' = IF HasContent(r) THEN sm ELSE Len(sitemap_urls)
    /\ pc' = "sitemap_sleep"
    /\ UNCHANGED <<site, corpus, disk, run, progress, sitemap_urls, scraped,
                   failed, to_scrape, i, post_data, flushes, written,
                   start_disk, prev_scraped, ever_failed>>

\* fetch_all_post_urls, the loop's body up to all_posts.extend(posts)
FetchSitemap ==
    /\ pc = "fetch_sitemap"
    /\ sm <= Len(sitemap_urls)
    /\ \E r \in Responses(site) :
          /\ requests' = Append(requests, Fetch("sitemap", sitemap_urls[sm], r))
          /\ post_urls' = post_urls \o fetch_post_urls_from_sitemap(sitemap_urls[sm], r)
    /\ pc' = "sitemap_sleep"
    /\ UNCHANGED <<site, corpus, disk, run, progress, sitemap_urls, sm, scraped,
                   failed, to_scrape, i, post_data, flushes, written,
                   start_disk, prev_scraped, ever_failed>>

\* fetch_all_post_urls: time.sleep(REQUEST_DELAY), the end of the loop's body
SitemapSleep ==
    /\ pc = "sitemap_sleep"
    /\ requests' = Append(requests, Sleep)
    /\ sm' = sm + 1
    /\ pc' = "fetch_sitemap"
    /\ UNCHANGED <<site, corpus, disk, run, progress, sitemap_urls, post_urls,
                   scraped, failed, to_scrape, i, post_data, flushes, written,
                   start_disk, prev_scraped, ever_failed>>

\* fetch_all_post_urls returns all_posts
FetchAllDone ==
    /\ pc = "fetch_sitemap"
    /\ sm > Len(sitemap_urls)
    /\ pc' = "build_index"
    /\ UNCHANGED <<site, corpus, disk, run, locals, history>>

\* build_index: the dict written to INDEX_FILE.
IndexOf(posts) ==
    [generated_at |-> run,
     total_posts |-> Len(posts),
     source |-> SITEMAP_INDEX_URL,
     posts |-> SortedByDateDesc(posts)]

\* BuildIndex that leaves the index alone when the checkpoint holds every
\* discovered URL.
BuildIndexIfWork ==
    /\ pc = "build_index"
    /\ index_file' =
          IF \A k \in 1..Len(post_urls) : post_urls[k].url \in progress.scraped_urls
            THEN index_file
            ELSE IndexOf(post_urls)
    /\ pc' = "scrape_all_posts"
    /\ UNCHANGED <<site, corpus, progress_file, files, dirs, run, locals, history>>

\* build_index(post_urls)
BuildIndex ==
    /\ pc = "build_index"
    /\ index_file' = IndexOf(post_urls)
    /\ pc' = "scrape_all_posts"
    /\ UNCHANGED <<site, corpus, progress_file, files, dirs, run, locals, history>>

\* scrape_all_posts up to the loop
ScrapeAllPosts ==
    /\ pc = "scrape_all_posts"
    /\ scraped' = progress.scraped_urls
    /\ failed' = progress.failed_urls
    /\ to_scrape' = ToScrape(post_urls, progress.scraped_urls)
    /\ i' = 1
    /\ pc' = "scrape_post"
    /\ UNCHANGED <<site, corpus, disk, run, progress, sitemap_urls, sm, post_urls,
                   post_data, history>>

\* post_data = scrape_post(url)
ScrapePost ==
    /\ pc = "scrape_post"
    /\ i <= Len(to_scrape)
    /\ \E r \in Responses(site) :
          /\ requests' = Append(requests, Fetch("post", to_scrape[i].url, r))
          /\ post_data' = scrape_post(to_scrape[i].url, r)
    /\ pc' = "handle"
    /\ UNCHANGED <<site, corpus, disk, run, progress, sitemap_urls, sm, post_urls,
                   scraped, failed, to_scrape, i, flushes, written,
                   start_disk, prev_scraped, ever_failed>>

\* if post_data: the record is written at get_output_path(url)
WriteRecord ==
    /\ pc = "handle"
    /\ post_data # NonePost
    /\ \E url \in {to_scrape[i].url} :
       \E path \in {get_output_path(url)} :
       \E data \in {[url |-> post_data.url,
                     date_from_url |-> post_data.date_from_url,
                     scraped_at |-> post_data.scraped_at,
                     sitemap_lastmod |-> to_scrape[i].lastmod]} :
          /\ dirs' = dirs \cup Parents(path)
          /\ files' = {f \in files : f.path # path}
                        \cup {[path |-> path, data |-> data]}
          /\ written' = written \cup {url}
    /\ pc' = "add"
    /\ UNCHANGED <<site, corpus, progress_file, index_file, run, locals, requests,
                   flushes, start_disk, prev_scraped, ever_failed>>

\* scraped.add(url)
AddScraped ==
    /\ pc = "add"
    /\ scraped' = scraped \cup {to_scrape[i].url}
    /\ pc' = "update_progress"
    /\ UNCHANGED <<site, corpus, disk, run, progress, sitemap_urls, sm, post_urls,
                   failed, to_scrape, i, post_data, history>>

\* AddFailed that leaves the loop (a break after failed.add).
AddFailedBreaks ==
    /\ pc = "handle"
    /\ post_data = NonePost
    /\ failed' = failed \cup {to_scrape[i].url}
    /\ i' = Len(to_scrape) + 1
    /\ pc' = "scrape_post"
    /\ UNCHANGED <<site, corpus, disk, run, progress, sitemap_urls, sm, post_urls,
                   scraped, to_scrape, post_data, history>>

\* AddFailed that counts the post as scraped (scraped.add in both branches).
AddFailedAsScraped ==
    /\ pc = "handle"
    /\ post_data = NonePost
    /\ failed' = failed \cup {to_scrape[i].url}
    /\ scraped' = scraped \cup {to_scrape[i].url}
    /\ pc' = "update_progress"
    /\ UNCHANGED <<site, corpus, disk, run, progress, sitemap_urls, sm, post_urls,
                   to_scrape, i, post_data, history>>

\* AddFailed that does not record the failure.
AddFailedForgets ==
    /\ pc = "handle"
    /\ post_data = NonePost
    /\ pc' = "update_progress"
    /\ UNCHANGED <<site, corpus, disk, run, locals, history>>

\* else: failed.add(url)
AddFailed ==
    /\ pc = "handle"
    /\ post_data = NonePost
    /\ failed' = failed \cup {to_scrape[i].url}
    /\ pc' = "update_progress"
    /\ UNCHANGED <<site, corpus, disk, run, progress, sitemap_urls, sm, post_urls,
                   scraped, to_scrape, i, post_data, history>>

\* UpdateProgress that counts the successes only (success_count % 10).
UpdateProgressOnSuccess ==
    /\ pc = "update_progress"
    /\ IF post_data # NonePost /\ FlushDue(Cardinality(written))
         THEN SaveProgress
         ELSE UNCHANGED <<progress, progress_file, flushes>>
    /\ pc' = "sleep"
    /\ UNCHANGED <<site, corpus, index_file, files, dirs, run, sitemap_urls, sm,
                   post_urls, scraped, failed, to_scrape, i, post_data,
                   requests, written, start_disk, prev_scraped, ever_failed>>

\* if i % 10 == 0: the checkpoint is saved
UpdateProgress ==
    /\ pc = "update_progress"
    /\ IF FlushDue(i)
         THEN SaveProgress
         ELSE UNCHANGED <<progress, progress_file, flushes>>
    /\ pc' = "sleep"
    /\ UNCHANGED <<site, corpus, index_file, files, dirs, run, sitemap_urls, sm,
                   post_urls, scraped, failed, to_scrape, i, post_data,
                   requests, written, start_disk, prev_scraped, ever_failed>>

\* time.sleep(REQUEST_DELAY), the end of the loop's body
RateLimit ==
    /\ pc = "sleep"
    /\ requests' = Append(requests, Sleep)
    /\ i' = i + 1
    /\ pc' = "scrape_post"
    /\ UNCHANGED <<site, corpus, disk, run, progress, sitemap_urls, sm, post_urls,
                   scraped, failed, to_scrape, post_data, flushes, written,
                   start_disk, prev_scraped, ever_failed>>

\* after the loop: the final save; scrape_all_posts and main return
FinalSave ==
    /\ pc = "scrape_post"
    /\ i > Len(to_scrape)
    /\ SaveProgress
    /\ pc' = "done"
    /\ UNCHANGED <<site, corpus, index_file, files, dirs, run, sitemap_urls, sm,
                   post_urls, scraped, failed, to_scrape, i, post_data,
                   requests, written, start_disk, prev_scraped, ever_failed>>

\* Ctrl+C.  Inside the try block main catches it, prints and returns; before
\* the try block nothing catches it.  It arrives between two steps.
KeyboardInterrupt ==
    /\ pc \in ScrapingPcs \cup EarlyPcs
    /\ pc' = IF pc \in ScrapingPcs THEN "interrupted" ELSE "killed"
    /\ UNCHANGED <<site, corpus, disk, run, locals, history>>

\* The URLs whose fetch by scrape_post failed in this run.
FailedFetches ==
    {requests[k].url : k \in {j \in 1..Len(requests) :
        requests[j].op = "fetch" /\ requests[j].kind = "post" /\ ~requests[j].ok}}

\* The program is started again, on the files the earlier runs left.
NewRun ==
    /\ pc \in EndPcs
    /\ run < MaxRuns
    /\ run' = run + 1
    /\ pc' = "main"
    /\ progress' = [scraped_urls |-> {}, failed_urls |-> {}, last_run |-> 0]
    /\ sitemap_urls' = << >>
    /\ sm' = 1
    /\ post_urls' = << >>
    /\ scraped' = {}
    /\ failed' = {}
    /\ to_scrape' = << >>
    /\ i' = 1
    /\ post_data' = NonePost
    /\ requests' = << >>
    /\ flushes' = 0
    /\ written' = {}
    /\ start_disk' = Snapshot
    /\ prev_scraped' = prev_scraped \cup PersistedScraped
    /\ ever_failed' = ever_failed \cup FailedFetches
    /\ UNCHANGED <<site, corpus, disk>>

\* The steps of the program itself.
Step ==
    \/ Main
    \/ FetchSitemapIndex
    \/ FetchSitemap
    \/ SitemapSleep
    \/ FetchAllDone
    \/ BuildIndex
    \/ ScrapeAllPosts
    \/ ScrapePost
    \/ WriteRecord
    \/ AddScraped
    \/ AddFailed
    \/ UpdateProgress
    \/ RateLimit
    \/ FinalSave

\* One run of main().
NextRun == Step \/ KeyboardInterrupt

Next == Step \/ KeyboardInterrupt \/ NewRun

\* Runs of main() one after the other, on the sites of SmallSites.
Spec == Init /\ [][Next]_vars

\* The same, where the running program always takes its next step (the
\* fetch returns, the sleep ends); Ctrl+C and restarts may or may not come.
FairSpec == Init /\ [][Next]_vars /\ WF_vars(Step)

\* One run of main() on a fresh installation, on the sites of LongSites.
SpecLong == InitLong /\ [][NextRun]_vars

\* One run of main() on a fresh installation, on the site of PathSites.
SpecPaths == InitPaths /\ [][NextRun]_vars

\* One run of main() on the archive of InitResume.
SpecResume == InitResume /\ [][NextRun]_vars

(***************************************************************************)
(* extract_content.py: the exporter of the archive to one text file.       *)
(***************************************************************************)
\* data.get(key, default)
Get(data, key, default) == IF key \in DOMAIN data THEN data[key] ELSE default

\* "not v" for a value that is None or a string
Falsy(v) == v = None \/ v = << >>

\* f"{v}" for a value that is None or a string
Format(v) == IF v = None THEN <<"N", "o", "n", "e">> ELSE v

UnknownDate == <<"U", "n", "k", "n", "o", "w", "n", " ", "D", "a", "t", "e">>

NoTitle == <<"N", "o", " ", "T", "i", "t", "l", "e">>

\* ExportDate that tries the date of the URL before the ISO date.
ExportDateUrlFirst(data) ==
    LET d1 == Get(data, "date_from_url", None)
        d2 == IF Falsy(d1) THEN Get(data, "date_iso", None) ELSE d1
    IN IF Falsy(d2) THEN Get(data, "date_display", UnknownDate) ELSE d2

\* date = data.get("date_iso"); if not date: date = data.get("date_from_url");
\* if not date: date = data.get("date_display", "Unknown Date")
ExportDate(data) ==
    LET d1 == Get(data, "date_iso", None)
        d2 == IF Falsy(d1) THEN Get(data, "date_from_url", None) ELSE d1
    IN IF Falsy(d2) THEN Get(data, "date_display", UnknownDate) ELSE d2

\* The Title and Date lines and the content the exporter writes for a record.
Block(data) ==
    [title   |-> Format(Get(data, "title", NoTitle)),
     date    |-> Format(ExportDate(data)),
     content |-> LET c == Get(data, "content_text", << >>)
                 IN IF c = None THEN << >> ELSE c]

\* The name of a file as glob gives it: the components joined by "/".
JoinPath(path) ==
    IF Len(path) = 3
      THEN path[1] \o <<"/">> \o path[2] \o <<"/">> \o path[3]
      ELSE path[1] \o <<"/">> \o path[2]

\* glob(ARCHIVE_DIR/*/*/*.json): the record files two directories deep.
Globbed == {f \in files : Len(f.path) = 3}

\* files.sort(): the globbed files by name (the names are distinct).
SortedFiles ==
    LET place(f) ==
            1 + Cardinality({g \in Globbed : StrLess(JoinPath(g.path), JoinPath(f.path))})
    IN [r \in 1..Cardinality(Globbed) |-> CHOOSE f \in Globbed : place(f) = r]

\* main of extract_content.py: nothing without the archive directory, else
\* OUTPUT_FILE is written anew, one block per globbed file, in sorted order.
ExtractContent ==
    /\ pc = "extract_content"
    /\ IF << >> \in dirs
         THEN corpus' = [r \in 1..Cardinality(Globbed) |-> Block(SortedFiles[r].data)]
         ELSE corpus' = corpus
    /\ pc' = "extracted"
    /\ UNCHANGED <<site, disk, run, locals, history>>

\* The values a date field of a record file holds: null, "", or a text.
DateValues(key) ==
    {None, << >>,
     CASE key = "date_iso"      -> Lastmod1
       [] key = "date_from_url" -> <<"2", "0", "2", "4", "-", "0", "3", "-", "0", "7">>
       [] OTHER                 -> <<"m", "a", "r", " ", "7">>}

DateKeys == {"date_iso", "date_from_url", "date_display"}

\* The date fields of a record file: each key absent or holding a value.
DateFields ==
    {d \in UNION {[K -> UNION {DateValues(k) : k \in DateKeys}] : K \in SUBSET DateKeys} :
        \A k \in DOMAIN d : d[k] \in DateValues(k)}

\* An archive of three record files: one of any date fields at 2024/03, one
\* with a date of the URL only at 2023/06, and one under misc/.
ExportArchive(d) ==
    {[path |-> get_output_path(UrlAB7),
      data |-> d @@ [url |-> UrlAB7, title |-> <<"a", "b">>,
                     content_text |-> <<"x">>]],
     [path |-> get_output_path(UrlDot),
      data |-> [url |-> UrlDot, title |-> None,
                date_from_url |-> extract_date_from_url(UrlDot)]],
     [path |-> get_output_path(UrlAbout),
      data |-> [url |-> UrlAbout, title |-> <<"m">>, date_from_url |-> None]]}

\* The exporter is about to run, where there is no archive directory or on
\* an archive of ExportArchive.
InitExport ==
    /\ site = SiteOf("B", 2)
    /\ progress_file = NoFile
    /\ index_file = NoFile
    /\ \/ files = {} /\ dirs = {}
       \/ /\ \E d \in DateFields : files = ExportArchive(d)
          /\ dirs = UNION {Parents(f.path) : f \in files}
    /\ corpus = NoFile
    /\ pc = "extract_content"
    /\ run = 1
    /\ InitLocals
    /\ requests = << >>
    /\ flushes = 0
    /\ written = {}
    /\ start_disk = Snapshot
    /\ prev_scraped = {}
    /\ ever_failed = {}

\* One run of extract_content.py.
SpecExport == InitExport /\ [][ExtractContent]_vars

(***************************************************************************)
(* What the properties speak of.                                           *)
(***************************************************************************)
\* The fetches of posts in this run, in order.
PostFetches ==
    SelectSeq(requests, LAMBDA r : r.op = "fetch" /\ r.kind = "post")

UrlsOf(seq) == [k \in 1..Len(seq) |-> seq[k].url]

Range(seq) == {seq[k] : k \in 1..Len(seq)}

\* scraped_urls of the checkpoint as this run found it.
StartScraped ==
    IF start_disk.progress_file = NoFile
      THEN {}
      ELSE start_disk.progress_file.scraped_urls

\* A file exists at the path of the URL's record.
HasRecord(u) == \E f \in files : f.path = get_output_path(u)

\* The file at the path of the URL's record holds that URL's record.
HoldsRecord(u) ==
    \E f \in files : f.path = get_output_path(u) /\ f.data.url = u

\* Every URL the site lists.
SiteUrls ==
    UNION {{e.loc : e \in Range(SitemapEntries(site, loc))} :
              loc \in Range(SitemapIndex(site))}

\* The URLs whose record this run wrote and the checkpoint on disk lacks.
Unflushed == {u \in written : u \notin PersistedScraped}

(***************************************************************************)
(* C1.  Idempotent resume.                                                 *)
(***************************************************************************)
\* C1: no run fetches a post URL that a checkpoint held when an earlier run
\* ended, and a run that reaches the end has fetched exactly the discovered
\* URLs that the checkpoint it found did not hold.
C1_IdempotentResume ==
    /\ \A k \in 1..Len(PostFetches) : PostFetches[k].url \notin prev_scraped
    /\ pc = "done" =>
          Range(UrlsOf(PostFetches)) = Range(UrlsOf(post_urls)) \ StartScraped

\* A second run has ended: it found a checkpoint that held a URL it
\* discovered again, and it fetched another.
C1_Witness ==
    /\ run = 2
    /\ pc = "done"
    /\ start_disk.progress_file # NoFile
    /\ Range(UrlsOf(post_urls)) \cap prev_scraped # {}
    /\ PostFetches # << >>

(***************************************************************************)
(* C2.  An interrupted run flushes the checkpoint.                         *)
(***************************************************************************)
\* C2: when a run ends by Ctrl+C during scraping, every URL added to the
\* scraped set in memory is in scraped_urls of the checkpoint on disk.
C2_InterruptFlushes ==
    pc = "interrupted" => scraped \subseteq PersistedScraped

(***************************************************************************)
(* C3.  Bounded loss.                                                      *)
(***************************************************************************)
\* C3 as stated: at every point fewer than 10 records written in this run
\* are absent from the checkpoint on disk.
C3_BoundedLossStrict == Cardinality(Unflushed) < FlushEvery

\* C3 amended: at every point at most 10 records written in this run are
\* absent from the checkpoint on disk.
C3_BoundedLoss == Cardinality(Unflushed) <= FlushEvery

\* The tenth URL of a run is in the scraped set and the save has not run.
C3_Witness ==
    /\ pc = "update_progress"
    /\ i = FlushEvery
    /\ Cardinality(Unflushed) = FlushEvery

CeilDiv(n) == (n + FlushEvery - 1) \div FlushEvery

\* C5 as stated: a run that is not interrupted and processes N URLs saves
\* the checkpoint ceil(N/10) times.
C5_FlushCeil == pc = "done" => flushes = CeilDiv(Len(to_scrape))

\* C5 amended: a run that is not interrupted and processes N URLs saves the
\* checkpoint floor(N/10) + 1 times.
C5_FlushCadence == pc = "done" => flushes = (Len(to_scrape) \div FlushEvery) + 1

\* A run of exactly 10 URLs, one of them failed, has ended with two saves.
C5_Witness ==
    /\ pc = "done"
    /\ Len(to_scrape) = FlushEvery
    /\ failed # {}
    /\ flushes = 2

(***************************************************************************)
(* C6.  Partial-failure isolation.                                         *)
(***************************************************************************)
\* C6: a run that is not interrupted ends, and when it has ended the posts it
\* fetched are the entries of to_scrape (the discovered posts the loaded
\* checkpoint lacks, in discovery order), each fetched once, in that order,
\* whichever of the fetches failed.
C6_PartialFailureIsolation ==
    /\ [](pc = "done" =>
            /\ UrlsOf(PostFetches) = UrlsOf(to_scrape)
            /\ to_scrape = SelectSeq(post_urls, LAMBDA p : p.url \notin StartScraped))
    /\ [](pc \in ScrapingPcs => <>(pc \in {"done", "interrupted"}))

\* A run has ended in which a fetch failed and a later post was fetched.
C6_Witness ==
    /\ pc = "done"
    /\ \E k \in 1..Len(PostFetches) : ~PostFetches[k].ok /\ k < Len(PostFetches)

(***************************************************************************)
(* C7.  Path uniqueness.                                                   *)
(***************************************************************************)
\* C7: the record written for a scraped URL is never overwritten by the
\* record of another URL: the file at the output path of every URL of the
\* scraped set, and of the checkpoint, holds that URL's record.
C7_PathUniqueness == \A u \in scraped \cup PersistedScraped : HoldsRecord(u)

(***************************************************************************)
(* C8.  Uniform rate limiting.                                             *)
(***************************************************************************)
\* C8: a sleep lies between any two consecutive fetches of a run.
C8_UniformRateLimit ==
    \A k \in 1..(Len(requests) - 1) :
        requests[k].op = "fetch" => requests[k + 1].op = "sleep"

(***************************************************************************)
(* C9.  Fatal discovery failure.                                           *)
(***************************************************************************)
\* C9: when the fetch of the sitemap index fails or gives an empty body the
\* run ends there: nothing else is fetched and the checkpoint, the index and
\* the records are as the run found them.
C9_FatalDiscoveryFailure ==
    (requests # << >> /\ requests[1].kind = "index"
       /\ (~requests[1].ok \/ requests[1].empty)) =>
        /\ pc = "runtime_error"
        /\ Len(requests) = 1
        /\ Snapshot = start_disk

\* A second run, on an archive with records, an index and a checkpoint, has
\* ended on the failed fetch of the sitemap index.
C9_Witness ==
    /\ run = 2
    /\ pc = "runtime_error"
    /\ files # {}
    /\ index_file # NoFile
    /\ progress_file # NoFile

(***************************************************************************)
(* C10.  Failed post bookkeeping.                                          *)
(***************************************************************************)
\* C10: the step that handles a failed fetch adds the URL to failed, writes
\* no record and leaves scraped as it is; a run that ends has saved the
\* failed URLs in failed_urls; and a run that ends has fetched every URL it
\* discovered whose fetch failed in an earlier run and which the checkpoint
\* it found does not hold as scraped.
C10_FailedPostBookkeeping ==
    /\ [][(pc = "handle" /\ post_data = NonePost /\ pc' # "interrupted") =>
             /\ to_scrape[i].url \in failed'
             /\ scraped' = scraped
             /\ files' = files
             /\ pc' = "update_progress"]_vars
    /\ [](pc = "done" =>
            /\ FailedFetches \subseteq PersistedFailed
            /\ \A p \in Range(post_urls) :
                  (p.url \in ever_failed /\ p.url \notin StartScraped) =>
                      p.url \in Range(UrlsOf(PostFetches)))

\* A second run has ended: it fetched again, this time with success, a URL
\* whose fetch failed in the first run.
C10_Witness ==
    /\ run = 2
    /\ pc = "done"
    /\ \E u \in ever_failed : u \in PersistedFailed /\ u \in written

(***************************************************************************)
(* C11.  scraped_urls only grows within a run.                             *)
(***************************************************************************)
\* C11: no step of a run removes a URL from the scraped set in memory or
\* from scraped_urls of the checkpoint on disk, and every save of a run
\* writes a scraped_urls that holds the scraped_urls the run loaded (and so,
\* the checkpoint changing only by saves, those of every earlier save).
C11_ScrapedGrowsInRun ==
    [][run' = run =>
         /\ PersistedScraped \subseteq PersistedScraped'
         /\ pc \in ScrapingPcs \ {"scrape_all_posts"} => scraped \subseteq scraped'
         /\ progress_file' # progress_file =>
               /\ flushes' = flushes + 1
               /\ StartScraped \subseteq PersistedScraped'
               /\ scraped \subseteq PersistedScraped']_vars

\* A run that loaded a checkpoint with a URL has saved twice and has added
\* URLs to it.
C11_Witness ==
    /\ pc = "done"
    /\ flushes = 2
    /\ StartScraped # {}
    /\ StartScraped \subseteq PersistedScraped
    /\ PersistedScraped # StartScraped

(***************************************************************************)
(* C12.  Index ordering.                                                   *)
(***************************************************************************)
\* C12: once a run has built the index, the index holds every discovered
\* reference (total_posts is their number), the dated ones first by date
\* descending, the undated ones after them, and references of equal date
\* (or both undated) in their discovery order.
C12_IndexOrdering ==
    pc \in ScrapingPcs \cup {"done", "interrupted"} =>
        LET ps == index_file.posts
            n  == Len(post_urls)
        IN /\ index_file.total_posts = n
           /\ Len(ps) = n
           /\ \E f \in Permutations(1..n) :
                 /\ \A r \in 1..n : ps[r] = post_urls[f[r]]
                 /\ \A a, b \in 1..n :
                       a < b =>
                         /\ ps[a].date = None => ps[b].date = None
                         /\ (ps[a].date # None /\ ps[b].date # None) =>
                                ~StrLess(ps[a].date, ps[b].date)
                         /\ ps[a].date = ps[b].date => f[a] < f[b]

\* The index of a run that discovered four references, an undated one
\* second and a later date after an earlier one: the undated one is last.
C12_Witness ==
    /\ pc = "done"
    /\ Len(post_urls) = 4
    /\ post_urls[2].date = None
    /\ StrLess(post_urls[1].date, post_urls[3].date)
    /\ index_file.posts[4].date = None
    /\ index_file.posts[1] = post_urls[3]

(***************************************************************************)
(* C13.  Path mapping.                                                     *)
(***************************************************************************)
\* The pattern /YYYY/MM/DD/slug occurs in the path of the URL.
DatedPath(u) == \E k \in 1..Len(UrlPath(u)) : PathMatchAt(UrlPath(u), k)

\* The pattern /YYYY/MM/DD/slug occurs in the URL.
DatedUrl(u) == \E k \in 1..Len(u) : PathMatchAt(u, k)

Year2024 == <<"2", "0", "2", "4">>

Month03 == <<"0", "3">>

\* C13 as stated: the record of https://example.org/2024/03/07/hello-world/
\* is at 2024/03/hello_world.json, and the record of every URL whose path
\* has no /YYYY/MM/DD/slug is under misc/.
C13_PathMappingAsStated ==
    \A f \in files :
        /\ f.data.url = UrlHello =>
              f.path = <<Year2024, Month03,
                         <<"h", "e", "l", "l", "o", "_", "w", "o", "r", "l", "d">> \o Json>>
        /\ ~DatedPath(f.data.url) => f.path[1] = Misc

\* C13 amended: the record of https://example.org/2024/03/07/hello-world/ is
\* at 2024/03/hello-world.json, the record of every URL in which no
\* /YYYY/MM/DD/slug occurs (path, query and fragment) is under misc/, and
\* the records of one URL are at one path.
C13_PathMapping ==
    /\ \A f \in files :
          /\ f.data.url = UrlHello =>
                f.path = <<Year2024, Month03,
                           <<"h", "e", "l", "l", "o", "-", "w", "o", "r", "l", "d">> \o Json>>
          /\ ~DatedUrl(f.data.url) => (Len(f.path) = 2 /\ f.path[1] = Misc)
    /\ \A f, g \in files : f.data.url = g.data.url => f.path = g.path

\* The records of the hello-world URL (written twice), of the URL with a date
\* in its query only, and of two URLs with no date pattern are on disk.
C13_Witness ==
    /\ pc = "done"
    /\ {UrlHello, UrlQuery, UrlNoSlug, UrlAbout} \subseteq written
    /\ \E f \in files : f.data.url = UrlHello /\ f.data.sitemap_lastmod = Lastmod1
    /\ \E f \in files : f.data.url = UrlQuery /\ f.path[1] = Year2024
    /\ \E f \in files : f.data.url = UrlNoSlug /\ f.path[1] = Misc

(***************************************************************************)
(* C14.  Date fallback of the exporter.                                    *)
(***************************************************************************)
\* The key is in the record and its value is neither null nor "".
SetNonEmpty(data, key) ==
    key \in DOMAIN data /\ data[key] # None /\ data[key] # << >>

\* C14: for every record the exporter reads, the Date it writes is date_iso
\* when that is set and not empty, else date_from_url when that is set and
\* not empty, else date_display when the record has that key, else
\* "Unknown Date".
C14_DateFallback ==
    (pc = "extracted" /\ corpus # NoFile) =>
        /\ Len(corpus) = Cardinality(Globbed)
        /\ \A f \in Globbed :
              \E r \in 1..Len(corpus) :
                 /\ corpus[r].title = Format(Get(f.data, "title", NoTitle))
                 /\ corpus[r].date =
                       IF SetNonEmpty(f.data, "date_iso")
                         THEN f.data.date_iso
                       ELSE IF SetNonEmpty(f.data, "date_from_url")
                         THEN f.data.date_from_url
                       ELSE IF "date_display" \in DOMAIN f.data
                         THEN Format(f.data.date_display)
                       ELSE UnknownDate

\* The exporter has written the blocks of a record with both date_iso and
\* date_from_url, and of a record with date_from_url only.
C14_Witness ==
    /\ pc = "extracted"
    /\ corpus # NoFile
    /\ \E f \in Globbed :
          SetNonEmpty(f.data, "date_iso") /\ SetNonEmpty(f.data, "date_from_url")
    /\ \E f \in Globbed : DOMAIN f.data \cap DateKeys = {"date_from_url"}
    /\ \E r \in 1..Len(corpus) : corpus[r].date = Lastmod1

(***************************************************************************)
(* C15.  Phase ordering.                                                   *)
(***************************************************************************)
\* The phase of a position of main: 1 Discovering, 2 IndexBuilding,
\* 3 Scraping, 4 Done; 0 where the run has ended otherwise.
Phase(p) ==
    CASE p \in {"main", "fetch_sitemap_index", "fetch_sitemap", "sitemap_sleep"} -> 1
      [] p = "build_index" -> 2
      [] p \in ScrapingPcs -> 3
      [] p = "done" -> 4
      [] OTHER -> 0

\* C15: a step of a run stays in its phase or goes to the next one, in the
\* order Discovering, IndexBuilding, Scraping, Done, unless it ends the run
\* otherwise; a run in Scraping or Done has written the index itself, so
\* before its first post fetch and whatever the checkpoint holds; and a run
\* comes to Interrupted from Scraping only, an interrupt in Discovering or
\* IndexBuilding ending it otherwise.
C15_PhaseOrdering ==
    /\ [][(run' = run /\ Phase(pc') # 0) =>
             Phase(pc') \in {Phase(pc), Phase(pc) + 1}]_vars
    /\ [][pc' = "interrupted" => pc \in ScrapingPcs]_vars
    /\ [][(Phase(pc) \in {1, 2} /\ Phase(pc') = 0) =>
             pc' \in {"killed", "runtime_error"}]_vars
    /\ [](Phase(pc) \in {3, 4} \/ pc = "interrupted" \/ PostFetches # << >>
            => (index_file # NoFile /\ index_file.generated_at = run
                /\ index_file.total_posts = Len(post_urls)))

\* A second run has ended that found every discovered URL in the checkpoint:
\* it fetched no post and wrote the index.
C15_Witness ==
    /\ run = 2
    /\ pc = "done"
    /\ post_urls # << >>
    /\ to_scrape = << >>
    /\ index_file.generated_at = 2

(***************************************************************************)
(* C16.  A post-sitemap whose fetch fails.                                 *)
(***************************************************************************)
\* The fetches of post-sitemaps in this run, in order.
SitemapFetches ==
    SelectSeq(requests, LAMBDA r : r.op = "fetch" /\ r.kind = "sitemap")

\* The <loc> of the <url> entries a fetch of a sitemap brought: those of the
\* sitemap when the fetch gave a body with entries, none otherwise.
LocsBrought(req) ==
    IF req.ok /\ ~req.empty
      THEN [k \in 1..Len(SitemapEntries(site, req.url)) |->
               SitemapEntries(site, req.url)[k].loc]
      ELSE << >>

RECURSIVE LocsOfAll(_)
\* The <loc> entries the fetches of a sequence brought, one after the other.
LocsOfAll(reqs) ==
    IF reqs = << >>
      THEN << >>
      ELSE LocsOfAll(SubSeq(reqs, 1, Len(reqs) - 1)) \o LocsBrought(reqs[Len(reqs)])

\* C16: the post-sitemaps are fetched in strictly increasing order of URL
\* (so each at most once, with no retry); when discovery has ended every
\* post-sitemap of the index has been fetched, whichever fetches failed, and
\* the discovered list is, in that order, the entries of the sitemaps whose
\* fetch succeeded.
C16_TransientSitemapFailure ==
    /\ \A a, b \in 1..Len(SitemapFetches) :
          a < b => StrLess(SitemapFetches[a].url, SitemapFetches[b].url)
    /\ Range(UrlsOf(SitemapFetches)) \subseteq
          {loc \in Range(SitemapIndex(site)) : Contains(loc, PostSitemapWord)}
    /\ Phase(pc) \in {2, 3, 4} \/ pc = "interrupted" =>
          /\ Range(UrlsOf(SitemapFetches)) = Range(sitemap_urls)
          /\ UrlsOf(post_urls) = LocsOfAll(SitemapFetches)

\* Discovery has ended: the fetch of the first of two post-sitemaps failed,
\* the second was fetched and its entries are the discovered list.
C16_Witness ==
    /\ pc = "build_index"
    /\ Len(SitemapFetches) = 2
    /\ ~SitemapFetches[1].ok
    /\ SitemapFetches[2].ok
    /\ Len(post_urls) = 2

(***************************************************************************)
(* C17.  A sitemap index with no post-sitemap in it.                       *)
(***************************************************************************)
\* C17: when the sitemap index is fetched with a body that gives no
\* post-sitemap location, the run does not come to scraping and leaves the
\* index file and the checkpoint as it found them.
C17_UnparseableIndexFatal ==
    (/\ requests # << >>
     /\ requests[1].kind = "index" /\ requests[1].ok /\ ~requests[1].empty
     /\ pc # "fetch_sitemap_index"
     /\ sitemap_urls = << >>) =>
        /\ Phase(pc) \notin {3, 4}
        /\ pc # "interrupted"
        /\ index_file = start_disk.index_file
        /\ progress_file = start_disk.progress_file

(***************************************************************************)
(* C18.  A post whose fetch succeeds gets a record.                        *)
(***************************************************************************)
\* C18: when the loop has handled a post whose fetch succeeded (whatever
\* the body, the empty one too), the record is written and the URL is in the
\* scraped set; and the loop has taken the branch that adds the URL to
\* failed only when the fetch failed.
C18_FetchSuccessImpliesRecord ==
    pc \in {"update_progress", "sleep"} =>
        LET f == PostFetches[Len(PostFetches)]
        IN /\ f.ok => (f.url \in written /\ HasRecord(f.url) /\ f.url \in scraped)
           /\ post_data = NonePost => ~f.ok

(***************************************************************************)
(* C19.  The checkpoint a run leaves when it ends.                         *)
(***************************************************************************)
\* failed_urls of the checkpoint as this run found it.
StartFailed ==
    IF start_disk.progress_file = NoFile
      THEN {}
      ELSE start_disk.progress_file.failed_urls

\* C19: when a run has ended without an interrupt, scraped_urls on disk is
\* the scraped_urls it loaded and the URLs it fetched with success, and
\* failed_urls on disk is the failed_urls it loaded and the URLs whose fetch
\* failed in it (so URLs no longer discovered stay, and a URL of failed_urls
\* scraped with success stays in failed_urls).
C19_FinalCheckpoint ==
    pc = "done" =>
        /\ PersistedScraped =
              StartScraped \cup {PostFetches[k].url :
                                   k \in {j \in 1..Len(PostFetches) : PostFetches[j].ok}}
        /\ PersistedFailed =
              StartFailed \cup {PostFetches[k].url :
                                  k \in {j \in 1..Len(PostFetches) : ~PostFetches[j].ok}}

(***************************************************************************)
(* C20.  One fetch per URL in a run.                                       *)
(***************************************************************************)
\* C20: no run fetches a post URL twice, and no run fetches a URL that is
\* in its scraped set already.
C20_OneFetchPerUrl ==
    /\ \A a, b \in 1..Len(PostFetches) :
          a < b => PostFetches[a].url # PostFetches[b].url
    /\ pc = "handle" => to_scrape[i].url \notin scraped

====
